---- MODULE Spec2Model ----
(***************************************************************************)
(* Model of query_liquidation_amount of the liquidation queue contract     *)
(* (contracts/liquidation_queue/src/query.rs).                             *)
(*                                                                         *)
(* Uint256 values are naturals.  A Decimal256 is the natural number of     *)
(* its raw units: the value d stands for d / DECIMAL_FRACTIONAL.  The      *)
(* crate cosmwasm_bignumber fixes DECIMAL_FRACTIONAL at 10^18; the model   *)
(* keeps the operators' rounding (every product and quotient is floored)   *)
(* and scales the unit down so that the values stay small.                 *)
(***************************************************************************)
EXTENDS Integers, Sequences, FiniteSets

(* ------------------------------ bounds --------------------------------- *)

DECIMAL_FRACTIONAL == 100

MaxLen == 2

MaxSlot == 2

(* --------------------------- value domains ----------------------------- *)

Percent(n) == (n * DECIMAL_FRACTIONAL) \div 100

Tokens == {"bluna", "beth"}

Slots == 0 .. (MaxSlot - 1)

\* the (collateral_token, amount) pairs a request is made of
Collaterals ==
    {<<"bluna", 0>>, <<"bluna", 34>>, <<"bluna", 400>>, <<"beth", 400>>}

Prices == {Percent(50), Percent(150)}

BorrowAmounts == {12, 40, 300}

BorrowLimits == {10, 40}

BidFees == {Percent(10)}

SafeRatios == {Percent(80)}

LiquidationThresholds == {51}

TaxRates == {Percent(1)}

RECURSIVE SeqsUpTo(_, _)
SeqsUpTo(S, n) ==
    IF n = 0 THEN {<<>>}
    ELSE LET shorter == SeqsUpTo(S, n - 1)
         IN  shorter \cup {Append(s, x) : s \in {t \in shorter : Len(t) = n - 1}, x \in S}

TokensHuman == SeqsUpTo(Collaterals, MaxLen)

PriceVecs == SeqsUpTo(Prices, MaxLen)

(* ------------------------ fixed-point arithmetic ----------------------- *)

Min(a, b) == IF a <= b THEN a ELSE b

one == DECIMAL_FRACTIONAL

\* Uint256 * Decimal256
MulUD(a, d) == (a * d) \div DECIMAL_FRACTIONAL

\* Decimal256 * Decimal256
MulDD(x, y) == (x * y) \div DECIMAL_FRACTIONAL

\* Uint256 / Decimal256, for d # 0
DivUD(a, d) == (a * DECIMAL_FRACTIONAL) \div d

\* Decimal256 / Decimal256, for y # 0
DivDD(x, y) == (x * DECIMAL_FRACTIONAL) \div y

from_uint256(a) == a * DECIMAL_FRACTIONAL

(* ------------------------------- state --------------------------------- *)

VARIABLES config, tax_rate, collateral_info, bid_pools, request, response

vars == <<config, tax_rate, collateral_info, bid_pools, request, response>>

NotFound == [found |-> FALSE]

\* the config is stored when the contract is instantiated
Configs ==
    [found : {TRUE}, bid_fee : BidFees, safe_ratio : SafeRatios,
     liquidation_threshold : LiquidationThresholds]

TaxQueries == {[ok |-> FALSE]} \cup [ok : {TRUE}, rate : TaxRates]

BidPool(total, premium) ==
    [found |-> TRUE, total_bid_amount |-> total, premium_rate |-> premium]

\* the ladder of bluna: max_slot slots
BlunaSlot0 == {NotFound, BidPool(0, Percent(1)), BidPool(100, Percent(1))}

BlunaSlot1 == {NotFound, BidPool(1000, Percent(5)), BidPool(1000, Percent(100))}

BlunaSlotN == {NotFound, BidPool(1000, Percent(100))}

\* the ladder of beth: one slot, deep discount, little liquidity
BethSlot0 == {NotFound, BidPool(1, Percent(99)), BidPool(5, Percent(99))}

Registered(max_slot) == [found |-> TRUE, max_slot |-> max_slot]

\* beth is a registered collateral or not; bluna is
CollateralInfos ==
    {[t \in Tokens |-> IF t = "bluna" THEN Registered(MaxSlot) ELSE beth] :
        beth \in {NotFound, Registered(1)}}

\* premium_rate is strictly increasing in the slot index
PremiumsIncrease(bp) ==
    \A t \in Tokens : \A s1 \in Slots, s2 \in Slots :
        (s1 < s2 /\ bp[<<t, s1>>].found /\ bp[<<t, s2>>].found)
            => bp[<<t, s1>>].premium_rate < bp[<<t, s2>>].premium_rate

BidPoolStores ==
    {bp \in [Tokens \X Slots ->
                BlunaSlot0 \cup BlunaSlot1 \cup BlunaSlotN \cup BethSlot0] :
        /\ bp[<<"bluna", 0>>] \in BlunaSlot0
        /\ bp[<<"bluna", 1>>] \in BlunaSlot1
        /\ \A s \in Slots \ {0, 1} : bp[<<"bluna", s>>] \in BlunaSlotN
        /\ bp[<<"beth", 0>>] \in BethSlot0
        /\ \A s \in Slots \ {0} : bp[<<"beth", s>>] = NotFound
        /\ PremiumsIncrease(bp)}

NoRequest == [called |-> FALSE]

NoResponse == [status |-> "none"]

(* ------------------------------ storage -------------------------------- *)

read_config == config

query_tax_rate == tax_rate

read_collateral_info(token) == collateral_info[token]

read_bid_pool(token, slot) ==
    IF slot \in Slots THEN bid_pools[<<token, slot>>] ELSE NotFound

(* ------------------------- the ladder sweep ---------------------------- *)

\* line 72-73: what the slot would pay for all the remaining collateral
PoolRepayAmount(collateral_to_liquidate, price, premium_rate) ==
    MulUD(MulUD(collateral_to_liquidate, price), one - premium_rate)

\* line 78: the divisor of the back-solve
EffectivePrice(price, premium_rate) == MulDD(one - premium_rate, price)

\* mutant of SlotFullyConsumed: the comparison is inverted
SlotFullyConsumed_Inverted(pool_repay_amount, slot_available_bids) ==
    pool_repay_amount < slot_available_bids

\* line 75: the slot cannot absorb the remainder
SlotFullyConsumed(pool_repay_amount, slot_available_bids) ==
    pool_repay_amount > slot_available_bids

\* One record per slot iteration that got past both `continue`s.
\* added is what the iteration added to expected_repay_amount.
Visit(index, token, slot, pool, price, collateral_to_liquidate, consumed, added) ==
    [index |-> index, token |-> token, slot |-> slot,
     total_bid_amount |-> pool.total_bid_amount,
     premium_rate |-> pool.premium_rate, price |-> price,
     collateral_to_liquidate |-> collateral_to_liquidate,
     wanted |-> PoolRepayAmount(collateral_to_liquidate, price, pool.premium_rate),
     divisor |-> EffectivePrice(price, pool.premium_rate),
     consumed |-> consumed, added |-> added]

\* lines 62-86: for slot in 0..max_slot, from slot on.  status is "ok", or
\* the panic that aborts the call: "DivideByZero" (the assert of the
\* division at line 78) or "Underflow" (the assert of the subtraction at
\* line 81).
RECURSIVE WalkSlots(_, _, _, _, _, _)
WalkSlots(index, token, price, slot, max_slot, collateral_to_liquidate) ==
    IF slot >= max_slot
    THEN [status |-> "ok", repay |-> 0, visits |-> <<>>]
    ELSE
    LET bid_pool == read_bid_pool(token, slot) IN
    IF ~bid_pool.found
    THEN WalkSlots(index, token, price, slot + 1, max_slot, collateral_to_liquidate)
    ELSE IF bid_pool.total_bid_amount = 0
    THEN WalkSlots(index, token, price, slot + 1, max_slot, collateral_to_liquidate)
    ELSE
    LET slot_available_bids == bid_pool.total_bid_amount
        premium_rate == bid_pool.premium_rate
        pool_repay_amount == PoolRepayAmount(collateral_to_liquidate, price, premium_rate)
        V(consumed, added) ==
            Visit(index, token, slot, bid_pool, price, collateral_to_liquidate,
                  consumed, added)
    IN
    IF SlotFullyConsumed(pool_repay_amount, slot_available_bids)
    THEN
        LET divisor == EffectivePrice(price, premium_rate) IN
        IF divisor = 0
        THEN [status |-> "DivideByZero", repay |-> 0, visits |-> <<V(TRUE, 0)>>]
        ELSE
        LET pool_collateral_to_liquidate == DivUD(slot_available_bids, divisor) IN
        IF pool_collateral_to_liquidate > collateral_to_liquidate
        THEN [status |-> "Underflow", repay |-> slot_available_bids,
              visits |-> <<V(TRUE, slot_available_bids)>>]
        ELSE
        LET rest == WalkSlots(index, token, price, slot + 1, max_slot,
                              collateral_to_liquidate - pool_collateral_to_liquidate)
        IN  [status |-> rest.status,
             repay |-> slot_available_bids + rest.repay,
             visits |-> <<V(TRUE, slot_available_bids)>> \o rest.visits]
    ELSE [status |-> "ok", repay |-> pool_repay_amount,
          visits |-> <<V(FALSE, pool_repay_amount)>>]

\* lines 53-87: for c in collaterals.iter().zip(collateral_prices.iter()),
\* from entry index on.  zip stops at the shorter of the two sequences.
\* The tokens of the model are well-formed addresses, so canonical_address
\* (line 58) succeeds; a collateral that is not registered fails the call at
\* read_collateral_info (line 59).
RECURSIVE Sweep(_, _, _)
Sweep(collaterals, collateral_prices, index) ==
    IF index > Min(Len(collaterals), Len(collateral_prices))
    THEN [status |-> "ok", collaterals_value |-> 0,
          expected_repay_amount |-> 0, visits |-> <<>>]
    ELSE
    LET collateral == collaterals[index]
        price == collateral_prices[index]
        collateral_value == MulUD(collateral[2], price)
        collateral_info_ == read_collateral_info(collateral[1])
    IN
    IF ~collateral_info_.found
    THEN [status |-> "NotFound", collaterals_value |-> collateral_value,
          expected_repay_amount |-> 0, visits |-> <<>>]
    ELSE
    LET walk == WalkSlots(index, collateral[1], price, 0,
                          collateral_info_.max_slot, collateral[2])
    IN
    IF walk.status # "ok"
    THEN [status |-> walk.status, collaterals_value |-> collateral_value,
          expected_repay_amount |-> walk.repay, visits |-> walk.visits]
    ELSE
    LET rest == Sweep(collaterals, collateral_prices, index + 1) IN
        [status |-> rest.status,
         collaterals_value |-> collateral_value + rest.collaterals_value,
         expected_repay_amount |-> walk.repay + rest.expected_repay_amount,
         visits |-> walk.visits \o rest.visits]

(* ---------------------- query_liquidation_amount ----------------------- *)

\* mutant of SafelyCollateralized: the limit itself counts as unsafe
SafelyCollateralized_Strict(borrow_amount, borrow_limit) == borrow_amount < borrow_limit

\* line 42: the safely collateralized check
SafelyCollateralized(borrow_amount, borrow_limit) == borrow_amount <= borrow_limit

\* mutant of ForceLiquidateAll: the comparison is inverted
ForceLiquidateAll_Inverted(expected_repay_amount, borrow_amount) ==
    expected_repay_amount >= borrow_amount

\* line 92: the bids cannot cover the debt
ForceLiquidateAll(expected_repay_amount, borrow_amount) ==
    expected_repay_amount <= borrow_amount

\* mutant of BelowThreshold: a value equal to the threshold counts as below
BelowThreshold_Inclusive(collaterals_value, liquidation_threshold) ==
    collaterals_value <= liquidation_threshold

\* line 99: the position is below the liquidation threshold
BelowThreshold(collaterals_value, liquidation_threshold) ==
    collaterals_value < liquidation_threshold

\* line 100
RatioBelowThreshold(borrow_amount, expected_repay_amount) ==
    DivDD(from_uint256(borrow_amount), from_uint256(expected_repay_amount))

\* mutant of RatioToSafe: the numerator measures the distance to the expected
\* repay amount instead of the distance to the safe borrow amount
RatioToSafe_FromExpected(borrow_amount, expected_repay_amount, safe_borrow_amount) ==
    DivDD(from_uint256(expected_repay_amount - borrow_amount),
          from_uint256(expected_repay_amount - safe_borrow_amount))

\* lines 102-103
RatioToSafe(borrow_amount, expected_repay_amount, safe_borrow_amount) ==
    DivDD(from_uint256(borrow_amount - safe_borrow_amount),
          from_uint256(expected_repay_amount - safe_borrow_amount))

\* mutant of ScaleCollateral: the closure scales by the zipped price
ScaleCollateral_ByPrice(collateral, price, liquidation_ratio) ==
    <<collateral[1], MulUD(collateral[2], price)>>

\* line 116: the closure's body
ScaleCollateral(collateral, price, liquidation_ratio) ==
    <<collateral[1], MulUD(collateral[2], liquidation_ratio)>>

\* line 119
KeepCollateral(collateral) == collateral[2] > 0

\* lines 109-118: collaterals.iter().zip(collateral_prices.iter()).map(..)
Scaled(collaterals, collateral_prices, liquidation_ratio) ==
    [i \in 1 .. Min(Len(collaterals), Len(collateral_prices)) |->
        ScaleCollateral(collaterals[i], collateral_prices[i], liquidation_ratio)]

\* lines 119-120: .filter(..).collect()
Filtered(tokens) == SelectSeq(tokens, KeepCollateral)

Failed(error, sweep) ==
    [status |-> "err", error |-> error, path |-> "failed", sweep |-> sweep,
     liquidated |-> <<>>]

NoSweep ==
    [status |-> "skipped", collaterals_value |-> 0, expected_repay_amount |-> 0,
     visits |-> <<>>]

\* The response of the call.  Beside the returned collaterals it keeps what
\* the call computed on the way: the path it took, the sweep with its slot
\* visits, the net expected_repay_amount, the liquidation_ratio and, as
\* liquidated, the returned entries before the filter of line 119 (entry i of
\* liquidated is made from entry i of the request).
query_liquidation_amount(borrow_amount, borrow_limit, collaterals, collateral_prices) ==
    LET config_ == read_config IN
    IF ~config_.found THEN Failed("NotFound", NoSweep)
    ELSE IF SafelyCollateralized(borrow_amount, borrow_limit)
    THEN [status |-> "ok", collaterals |-> <<>>, path |-> "safe", sweep |-> NoSweep,
          liquidated |-> <<>>]
    ELSE
    LET tax == query_tax_rate IN
    IF ~tax.ok THEN Failed("QueryError", NoSweep)
    ELSE
    LET base_fee_deductor == MulDD(one - config_.bid_fee, one - tax.rate)
        sweep == Sweep(collaterals, collateral_prices, 1)
    IN
    IF sweep.status # "ok" THEN Failed(sweep.status, sweep)
    ELSE
    LET expected_repay_amount == MulUD(sweep.expected_repay_amount, base_fee_deductor) IN
    IF ForceLiquidateAll(expected_repay_amount, borrow_amount)
    THEN [status |-> "ok", collaterals |-> collaterals, path |-> "full",
          sweep |-> sweep, liquidated |-> collaterals,
          expected_repay_amount |-> expected_repay_amount]
    ELSE
    LET safe_borrow_amount == MulUD(borrow_limit, config_.safe_ratio)
        below == BelowThreshold(sweep.collaterals_value, config_.liquidation_threshold)
    IN
    IF ~below /\ borrow_amount < safe_borrow_amount
    THEN Failed("Underflow", sweep)
    ELSE IF ~below /\ expected_repay_amount < safe_borrow_amount
    THEN Failed("Underflow", sweep)
    ELSE IF ~below /\ expected_repay_amount = safe_borrow_amount
    THEN Failed("DivideByZero", sweep)
    ELSE IF below /\ expected_repay_amount = 0
    THEN Failed("DivideByZero", sweep)
    ELSE
    LET uncapped ==
            IF below
            THEN RatioBelowThreshold(borrow_amount, expected_repay_amount)
            ELSE RatioToSafe(borrow_amount, expected_repay_amount, safe_borrow_amount)
        liquidation_ratio == Min(one, uncapped)
    IN  [status |-> "ok",
         collaterals |-> Filtered(Scaled(collaterals, collateral_prices, liquidation_ratio)),
         path |-> "ratio", sweep |-> sweep,
         liquidated |-> Scaled(collaterals, collateral_prices, liquidation_ratio),
         expected_repay_amount |-> expected_repay_amount,
         safe_borrow_amount |-> safe_borrow_amount,
         below |-> below, liquidation_ratio |-> liquidation_ratio]

(* ---------------------------- the machine ------------------------------ *)

Init ==
    /\ config \in Configs
    /\ tax_rate \in TaxQueries
    /\ collateral_info \in CollateralInfos
    /\ bid_pools \in BidPoolStores
    \* a bid pool is created for a registered collateral only; the model
    \* funds the one slot of beth as soon as beth is registered
    /\ collateral_info["beth"].found <=> bid_pools[<<"beth", 0>>].found
    /\ request = NoRequest
    /\ response = NoResponse

\* One call of the query.  The query reads the storage and writes nothing.
QueryLiquidationAmount ==
    /\ ~request.called
    /\ \E borrow_amount \in BorrowAmounts, borrow_limit \in BorrowLimits,
          collaterals \in TokensHuman, collateral_prices \in PriceVecs :
        /\ request' = [called |-> TRUE, borrow_amount |-> borrow_amount,
                       borrow_limit |-> borrow_limit, collaterals |-> collaterals,
                       collateral_prices |-> collateral_prices]
        /\ response' = query_liquidation_amount(borrow_amount, borrow_limit,
                                                collaterals, collateral_prices)
    /\ UNCHANGED <<config, tax_rate, collateral_info, bid_pools>>

Next == QueryLiquidationAmount

Spec == Init /\ [][Next]_vars

(* ------------------------------ claims --------------------------------- *)

Called == request.called

Returned == request.called /\ response.status = "ok"

NoPrices == Len(request.collateral_prices) < Len(request.collaterals)

\* C1: a call with borrow_amount <= borrow_limit on an initialized config
\* returns the empty collateral list, whatever the tax query, the collateral
\* registrations, the prices and the bid pools are.
C1_SafeReturnsEmpty ==
    (Called /\ config.found /\ request.borrow_amount <= request.borrow_limit)
        => (response.status = "ok" /\ response.collaterals = <<>>)

\* the tax query fails, beth is not registered, a price is missing, and the
\* position sits exactly on its limit
C1_Witness ==
    /\ Called /\ config.found /\ ~tax_rate.ok
    /\ request.borrow_amount = request.borrow_limit
    /\ ~collateral_info["beth"].found
    /\ Len(request.collaterals) = 2 /\ request.collaterals[1][1] = "beth"
    /\ NoPrices
    /\ response.status = "ok" /\ response.collaterals = <<>>

\* out is made of the entries inp[f[1]], inp[f[2]], .. of inp, in this order,
\* each with its amount scaled by ratio and floored
ScaledBy(out, inp, ratio, f) ==
    /\ \A k \in DOMAIN f : \A l \in DOMAIN f : k < l => f[k] < f[l]
    /\ \A k \in DOMAIN f :
        /\ out[k][1] = inp[f[k]][1]
        /\ out[k][2] = (inp[f[k]][2] * ratio) \div DECIMAL_FRACTIONAL
        /\ out[k][2] <= inp[f[k]][2]

\* the ratios a returned list can have been scaled by: 1 when all collateral
\* is returned, the liquidation ratio on the partial path
Ratios ==
    IF response.path = "ratio" THEN {response.liquidation_ratio}
    ELSE {DECIMAL_FRACTIONAL}

\* C2: every returned amount is at most the amount of the request's entry it
\* comes from, and all returned entries are request entries scaled by one
\* common ratio <= 1 (floored), in the request's order.
C2_ScaledByCommonRatio ==
    Returned =>
        \E ratio \in Ratios :
            /\ ratio <= DECIMAL_FRACTIONAL
            /\ \E f \in [1 .. Len(response.collaterals) -> 1 .. Len(request.collaterals)] :
                  ScaledBy(response.collaterals, request.collaterals, ratio, f)

\* two entries are returned, both scaled down by a ratio strictly between 0 and 1
C2_Witness ==
    /\ Returned /\ response.path = "ratio"
    /\ response.liquidation_ratio > 0
    /\ response.liquidation_ratio < DECIMAL_FRACTIONAL
    /\ Len(response.collaterals) = 2
    /\ response.collaterals[1][2] < request.collaterals[1][2]
    /\ response.collaterals[2][2] < request.collaterals[2][2]

RECURSIVE SumValue(_, _, _)
SumValue(tokens, prices, i) ==
    IF i > Len(tokens) \/ i > Len(prices) THEN 0
    ELSE ((tokens[i][2] * prices[i]) \div DECIMAL_FRACTIONAL)
         + SumValue(tokens, prices, i + 1)

\* the value of what a response liquidates, at the request's prices (an entry
\* the request gives no price for has no value)
TotalLiquidatedValue(resp) == SumValue(resp.liquidated, request.collateral_prices, 1)

\* the call of the request with another borrow_amount
WithBorrowAmount(b) ==
    query_liquidation_amount(b, request.borrow_limit, request.collaterals,
                             request.collateral_prices)

\* C3: of two successful calls that differ in borrow_amount only, the one with
\* the larger borrow_amount liquidates at least the value the other does.
C3_Monotone ==
    Returned =>
        \A b \in BorrowAmounts :
            b >= request.borrow_amount =>
                LET larger == WithBorrowAmount(b)
                IN  larger.status = "ok"
                        => TotalLiquidatedValue(larger) >= TotalLiquidatedValue(response)

\* a partial liquidation that a larger debt turns into a larger partial one
\* and a still larger debt into a full one
C3_Witness ==
    /\ Returned /\ response.path = "ratio"
    /\ TotalLiquidatedValue(response) > 0
    /\ \E b1 \in BorrowAmounts, b2 \in BorrowAmounts :
        /\ request.borrow_amount < b1 /\ b1 < b2
        /\ WithBorrowAmount(b1).path = "ratio"
        /\ WithBorrowAmount(b2).path = "full"
        /\ TotalLiquidatedValue(response) < TotalLiquidatedValue(WithBorrowAmount(b1))
        /\ TotalLiquidatedValue(WithBorrowAmount(b1))
               < TotalLiquidatedValue(WithBorrowAmount(b2))

\* the call got through the ladder sweep of every zipped entry
Swept == request.called /\ response.sweep.status = "ok"

\* the call got to the ladder sweep
SweepStarted == request.called /\ response.sweep.status # "skipped"

SlotVisits == response.sweep.visits

Funded(token, slot) ==
    /\ slot < collateral_info[token].max_slot
    /\ bid_pools[<<token, slot>>].found
    /\ bid_pools[<<token, slot>>].total_bid_amount > 0

\* bluna alone, worth 50 stable units at the discount of slot 0, on the
\* ladder of discounts [0.01, 0.05] and liquidities [100, 1000]
LadderScenario ==
    /\ SweepStarted
    /\ bid_pools[<<"bluna", 0>>] = BidPool(100, Percent(1))
    /\ bid_pools[<<"bluna", 1>>] = BidPool(1000, Percent(5))
    /\ Len(request.collaterals) = 1 /\ Len(request.collateral_prices) >= 1
    /\ request.collaterals[1][1] = "bluna"
    /\ (((request.collaterals[1][2] * request.collateral_prices[1])
            \div DECIMAL_FRACTIONAL) * (DECIMAL_FRACTIONAL - Percent(1)))
         \div DECIMAL_FRACTIONAL = 50

\* C4: in the scenario the 50 stable units all come from slot 0 and slot 1 is
\* not touched; in general the slots of an entry are visited in increasing
\* order and a slot contributes only after every funded slot below it has
\* contributed exactly its total_bid_amount.
C4_LadderOrder ==
    Called =>
        /\ LadderScenario =>
            /\ Len(SlotVisits) = 1
            /\ SlotVisits[1].slot = 0 /\ SlotVisits[1].added = 50
            /\ response.sweep.expected_repay_amount = 50
        /\ \A k \in DOMAIN SlotVisits : \A l \in DOMAIN SlotVisits :
            (k < l /\ SlotVisits[k].index = SlotVisits[l].index)
                => /\ SlotVisits[k].slot < SlotVisits[l].slot
                   /\ SlotVisits[k].added = SlotVisits[k].total_bid_amount
        /\ \A l \in DOMAIN SlotVisits : \A slot \in Slots :
            (slot < SlotVisits[l].slot /\ Funded(SlotVisits[l].token, slot))
                => \E k \in DOMAIN SlotVisits :
                    /\ k < l
                    /\ SlotVisits[k].index = SlotVisits[l].index
                    /\ SlotVisits[k].slot = slot
                    /\ SlotVisits[k].added = bid_pools[<<SlotVisits[l].token, slot>>].total_bid_amount

C4_Witness ==
    /\ Called /\ LadderScenario
    /\ Len(SlotVisits) = 1 /\ SlotVisits[1].added = 50 /\ ~SlotVisits[1].consumed

\* the fee and tax adjusted expected_repay_amount, from the sweep's total
NetExpected ==
    (response.sweep.expected_repay_amount
        * (((DECIMAL_FRACTIONAL - config.bid_fee) * (DECIMAL_FRACTIONAL - tax_rate.rate))
             \div DECIMAL_FRACTIONAL)) \div DECIMAL_FRACTIONAL

\* no slot of the collateral types of the request is readable and funded
NoLiquidity ==
    \A i \in DOMAIN request.collaterals : \A slot \in Slots :
        \/ ~bid_pools[<<request.collaterals[i][1], slot>>].found
        \/ bid_pools[<<request.collaterals[i][1], slot>>].total_bid_amount = 0

\* C5: when borrow_amount > borrow_limit and the net expected_repay_amount is
\* <= borrow_amount, the response is the request's collateral list as it is;
\* a call that finds no funded slot expects 0 and returns the whole list.
C5_ForcedFull ==
    /\ (Swept /\ NetExpected <= request.borrow_amount)
        => (response.status = "ok" /\ response.collaterals = request.collaterals)
    /\ (Returned /\ request.borrow_amount > request.borrow_limit /\ NoLiquidity)
        => /\ response.sweep.expected_repay_amount = 0
           /\ response.collaterals = request.collaterals

\* bluna with an unfunded slot 0 and an unreadable slot 1
C5_Witness ==
    /\ Returned /\ request.borrow_amount > request.borrow_limit /\ NoLiquidity
    /\ bid_pools[<<"bluna", 0>>].found /\ ~bid_pools[<<"bluna", 1>>].found
    /\ Len(request.collaterals) = 2 /\ Len(request.collateral_prices) = 2
    /\ request.collaterals[1] = <<"bluna", 400>>
    /\ request.collateral_prices[1] > 0
    /\ response.collaterals = request.collaterals

\* a forced full liquidation with bids that cover part of the debt
C5_WitnessPartlyCovered ==
    /\ Swept /\ NetExpected > 0 /\ NetExpected <= request.borrow_amount
    /\ response.collaterals = request.collaterals

CollateralsValue == SumValue(request.collaterals, request.collateral_prices, 1)

SafeBorrowAmount == (request.borrow_limit * config.safe_ratio) \div DECIMAL_FRACTIONAL

\* the call got past the insufficiency check
Partial == Swept /\ NetExpected > request.borrow_amount

C6_WitnessBelow ==
    /\ Partial /\ response.status = "ok"
    /\ CollateralsValue < config.liquidation_threshold
    /\ SafeBorrowAmount > 0
    /\ response.liquidation_ratio > 0
    /\ response.liquidation_ratio < DECIMAL_FRACTIONAL

\* C7: a call whose collaterals and collateral_prices differ in length is
\* rejected: it returns no liquidation plan.
C7_MismatchRejected ==
    (Called /\ Len(request.collaterals) # Len(request.collateral_prices))
        => response.status = "err"

\* the returned entries name request entries, in the request's order
KeepsOrder ==
    \E f \in [1 .. Len(response.collaterals) -> 1 .. Len(request.collaterals)] :
        /\ \A k \in DOMAIN f : \A l \in DOMAIN f : k < l => f[k] < f[l]
        /\ \A k \in DOMAIN f : response.collaterals[k][1] = request.collaterals[f[k]][1]

\* C8: no returned entry has amount zero, on any return path, and the
\* returned entries keep the request's order and asset identities.
C8_NoZeroAmount ==
    Returned =>
        /\ \A k \in DOMAIN response.collaterals : response.collaterals[k][2] > 0
        /\ KeepsOrder

\* C9: the back-solve division is reached only with price # 0 and
\* premium_rate # 1, its divisor is never zero, and the collateral quantity
\* it yields is at most the remaining collateral_to_liquidate.
C9_DivisionSafe ==
    Called =>
        \A k \in DOMAIN SlotVisits :
            SlotVisits[k].consumed =>
                /\ SlotVisits[k].price # 0
                /\ SlotVisits[k].premium_rate # DECIMAL_FRACTIONAL
                /\ SlotVisits[k].divisor # 0
                /\ (SlotVisits[k].total_bid_amount * DECIMAL_FRACTIONAL)
                       \div SlotVisits[k].divisor
                     <= SlotVisits[k].collateral_to_liquidate

\* the parts of C9, one by one
C9_ReachedInDomain ==
    Called =>
        \A k \in DOMAIN SlotVisits :
            SlotVisits[k].consumed =>
                /\ SlotVisits[k].price # 0
                /\ SlotVisits[k].premium_rate # DECIMAL_FRACTIONAL

C9_DivisorNotZero ==
    Called =>
        \A k \in DOMAIN SlotVisits :
            SlotVisits[k].consumed => SlotVisits[k].divisor # 0

C9_NoUnderflow ==
    Called =>
        \A k \in DOMAIN SlotVisits :
            (SlotVisits[k].consumed /\ SlotVisits[k].divisor # 0) =>
                (SlotVisits[k].total_bid_amount * DECIMAL_FRACTIONAL)
                       \div SlotVisits[k].divisor
                     <= SlotVisits[k].collateral_to_liquidate

\* the collateral types the request names
RequestTokens == {request.collaterals[i][1] : i \in DOMAIN request.collaterals}

RECURSIVE SumBids(_)
SumBids(pools) ==
    IF pools = {} THEN 0
    ELSE LET p == CHOOSE q \in pools : TRUE
         IN  (IF bid_pools[p].found THEN bid_pools[p].total_bid_amount ELSE 0)
             + SumBids(pools \ {p})

\* the liquidity that exists for the request: total_bid_amount over the
\* distinct (collateral type, slot) bid pools of its collateral types
Liquidity == SumBids(RequestTokens \X Slots)

\* C10: a slot visit adds at most the slot's total_bid_amount, and the
\* expected_repay_amount, before and after the fee factor, is at most the
\* liquidity that exists for the request's collateral types.
C10_LiquidityBound ==
    Swept =>
        /\ \A k \in DOMAIN SlotVisits :
            SlotVisits[k].added <= SlotVisits[k].total_bid_amount
        /\ response.sweep.expected_repay_amount <= Liquidity
        /\ NetExpected <= Liquidity

C10_VisitBound ==
    Called =>
        \A k \in DOMAIN SlotVisits :
            SlotVisits[k].added <= SlotVisits[k].total_bid_amount

\* the bound of C10 for requests that name every collateral type once
C10_DistinctBound ==
    (Swept /\ Cardinality(RequestTokens) = Len(request.collaterals))
        => response.sweep.expected_repay_amount <= Liquidity

====
